---- MODULE Spec2Model ----
(***************************************************************************)
(* Model of the bronya.js API construct's Express development gateway      *)
(* (startExpressApiDevelopmentServer) with its watcher, its build step     *)
(* (buildApiRoute), the API-Gateway/Express request wrapper                *)
(* (wrapExpressHandler, decode), the Api construct (init, synth), the      *)
(* directory tree resolver and the construct search of the core package.   *)
(***************************************************************************)
EXTENDS Integers, Sequences, FiniteSets, TLC

\* ---------------------------------------------------------------------------
\* Bounds
\* ---------------------------------------------------------------------------

\* Number of watcher 'change' events that are delivered after startup.
MaxChanges == 2

\* Date.now() takes the values 0..MaxTime.
MaxTime == 1

\* ---------------------------------------------------------------------------
\* Routes, sources and compiled modules
\* ---------------------------------------------------------------------------

\* Object.values(api.routes): the route records in insertion order.  A route
\* is named by the segments of its endpoint (its directory relative to the
\* routes directory): <<>> is the endpoint "/" and <<"b">> the endpoint "/b".
apiRoutes == << <<>>, <<"b">> >>

Routes == {apiRoutes[i] : i \in 1..Len(apiRoutes)}

\* The names version v of a route's entry file exports, in declaration order:
\* HTTP methods, the catch-all ANY, and names that are not methods, among
\* them a name that every object inherits from Object.prototype.
ExportsOf(v) ==
    CASE v % 6 = 0 -> <<"GET">>
      [] v % 6 = 1 -> <<"GET", "POST", "overrides">>
      [] v % 6 = 2 -> <<"ANY", "overrides">>
      [] v % 6 = 3 -> <<"overrides">>
      [] v % 6 = 4 -> <<"GET", "toString">>
      [] OTHER     -> <<"HEAD", "GET">>

\* The states of version v of a route's source: it compiles and loads ("ok"),
\* fails to compile ("buildError"), or compiles to a module that throws
\* during its module-level initialisation ("loadError").
Contents(v) ==
    {[ver |-> v, kind |-> k, exports |-> IF k = "ok" THEN ExportsOf(v) ELSE <<>>] :
        k \in {"ok", "buildError", "loadError"}}

\* No file on disk / no module loaded.
NoFile == [ver |-> -1, kind |-> "none", exports |-> <<>>]

HttpMethodsToExpress ==
    [DELETE |-> "delete", GET |-> "get", HEAD |-> "head", PATCH |-> "patch",
     POST |-> "post", PUT |-> "put", OPTIONS |-> "options", ANY |-> "use"]

\* The properties an object literal inherits from Object.prototype.
ObjectPrototype ==
    {"constructor", "hasOwnProperty", "isPrototypeOf", "propertyIsEnumerable",
     "toLocaleString", "toString", "valueOf"}

\* method in HttpMethodsToExpress: the `in` operator finds own and inherited
\* properties.
isMethod(method) == method \in DOMAIN HttpMethodsToExpress \cup ObjectPrototype

VARIABLES
    source,        \* source[r]: the entry file of route r as the developer last saved it
    outFile,       \* outFile[r]: the compiled handler file path.resolve(outDirectory, exitPoint)
    format,        \* api.config.esbuild.format: "cjs" or "esm"
    now,           \* Date.now()
    requireCache,  \* require.cache: compiled file path -> module loaded by require
    esmCache,      \* the ESM loader's module map: <<path, update>> -> module loaded by import
    heap,          \* the express Router objects created by loadEndpoint: id -> layers
    routers,       \* routers[r]: id of the Router of route r, 0 when undefined
    router,        \* the global router: the per-route Router ids mounted on it, in order
    tasks,         \* the startup work per route followed by the running watcher callbacks
    mainPc,        \* position of startExpressApiDevelopmentServer
    changes,       \* number of change events delivered
    alive,         \* the node process is running
    req,           \* the request wrapExpressHandler is answering
    api,           \* the Api construct: its config and its routes
    disk,          \* the route directories on disk: entry module and project config file
    procs,         \* procs[d]: position of Api.init's work on directory d
    initPc,        \* position of Api.init
    tree,          \* a call of resolveDirectoryTree: its arguments and its results
    decoding,      \* a call of decode: its argument and what it returns
    finding,       \* a call of getAppPlugins or findNestedBronyaConstructs on a construct tree
    building,      \* a call of buildApiRoute: its options and the files the compiler writes
    files,         \* the files below the out directories: path -> version of the source compiled
    pending,       \* the paths with a file-system event the watcher has not handled yet
    jobs,          \* the builds in flight with what follows them: watcher callbacks, synth's work
    rebuilds,      \* rebuilds[d]: number of builds the watcher has started for the route at d
    loaded,        \* loaded[d]: the names exported by the module loadEndpoint last loaded for d
    functions      \* the Lambda functions synth has created, with the asset each was made from

vars == <<source, outFile, format, now, requireCache, esmCache, heap, routers,
          router, tasks, mainPc, changes, alive, req, api, disk, procs, initPc, tree,
          decoding, finding, building, files, pending, jobs, rebuilds, loaded, functions>>

\* The state of the files, of the watcher and of the work on them.
devVars == <<files, pending, jobs, rebuilds, loaded, functions>>

\* The state of the calls of the library's functions.
callVars == <<decoding, finding, building>>

\* The state of the Api construct and of the directory tree resolver.
apiVars == <<api, disk, procs, initPc, tree>>

\* The state of the development gateway without the request being answered.
gatewayVars == <<source, outFile, format, now, requireCache, esmCache, heap, routers,
                 router, tasks, mainPc, changes, alive, apiVars, callVars, devVars>>

\* The state of the development gateway.
serverVars == <<source, outFile, format, now, requireCache, esmCache, heap, routers,
                router, tasks, mainPc, changes, alive, req>>

N == Len(apiRoutes)

Times == 0..MaxTime

\* ---------------------------------------------------------------------------
\* node:path (POSIX) and resolveDirectoryTree
\* ---------------------------------------------------------------------------

\* Depth of the directories below the routes directory that are converted.
MaxDepth == 2

\* A path string: whether it starts with '/', its segments between the
\* separators ("." and ".." included), and whether it ends with '/'.
Path(abs, segs, trail) == [abs |-> abs, segs |-> segs, trail |-> trail]

\* The strings '', '/' and '.'.
Empty == Path(FALSE, <<>>, FALSE)

Slash == Path(TRUE, <<>>, FALSE)

Dot == Path(FALSE, <<".">>, FALSE)

\* process.cwd()
cwd == Path(TRUE, <<"w">>, FALSE)

Front(s) == SubSeq(s, 1, Len(s) - 1)

RECURSIVE normalizeString(_, _, _)
\* normalizeString(path, allowAboveRoot): "." is dropped, ".." removes the
\* segment before it, and a ".." with nothing to remove is kept in a relative
\* path and dropped in an absolute one.
normalizeString(acc, segs, allowAboveRoot) ==
    IF segs = <<>> THEN acc
    ELSE LET s == Head(segs)
             rest == Tail(segs)
         IN  IF s = "." THEN normalizeString(acc, rest, allowAboveRoot)
             ELSE IF s = ".."
             THEN IF acc # <<>> /\ acc[Len(acc)] # ".."
                  THEN normalizeString(Front(acc), rest, allowAboveRoot)
                  ELSE IF allowAboveRoot
                  THEN normalizeString(Append(acc, ".."), rest, allowAboveRoot)
                  ELSE normalizeString(acc, rest, allowAboveRoot)
             ELSE normalizeString(Append(acc, s), rest, allowAboveRoot)

\* path.normalize(path)
normalize(p) ==
    IF p = Empty THEN Dot
    ELSE LET segs == normalizeString(<<>>, p.segs, ~p.abs)
         IN  IF segs = <<>>
             THEN IF p.abs THEN Slash ELSE Path(FALSE, <<".">>, p.trail)
             ELSE Path(p.abs, segs, p.trail)

\* path.join(a, b): the arguments that are not empty joined by '/', normalized.
join(a, b) ==
    IF a = Empty /\ b = Empty THEN Dot
    ELSE IF a = Empty THEN normalize(b)
    ELSE IF b = Empty THEN normalize(a)
    ELSE normalize(Path(a.abs, a.segs \o b.segs, b.trail \/ b = Slash))

\* path.resolve(a, b): the arguments are taken from the right until an
\* absolute one is met, the working directory comes first when none is; the
\* result is absolute, normalized and has no trailing separator.
resolve(a, b) ==
    LET segs == IF b.abs THEN b.segs
                ELSE IF a.abs THEN a.segs \o b.segs
                ELSE cwd.segs \o a.segs \o b.segs
    IN  Path(TRUE, normalizeString(<<>>, segs, FALSE), FALSE)

RECURSIVE CommonPrefix(_, _)
\* The number of leading segments two paths share.
CommonPrefix(f, t) ==
    IF f = <<>> \/ t = <<>> \/ Head(f) # Head(t) THEN 0
    ELSE 1 + CommonPrefix(Tail(f), Tail(t))

\* A conversion that keeps the last segment only.
relativeMutant(from, to) ==
    LET t == resolve(Empty, to).segs
    IN  IF from = to \/ resolve(Empty, from).segs = t THEN Empty
        ELSE Path(FALSE, <<t[Len(t)]>>, FALSE)

\* path.relative(from, to): both are resolved; one ".." for every segment of
\* `from` below the common prefix, then the segments of `to` below it.
relative(from, to) ==
    LET f == resolve(Empty, from).segs
        t == resolve(Empty, to).segs
        k == CommonPrefix(f, t)
    IN  IF from = to \/ f = t THEN Empty
        ELSE Path(FALSE, [i \in 1..(Len(f) - k) |-> ".."] \o SubSeq(t, k + 1, Len(t)), FALSE)

\* const root / outDirectory / routesDirectory of resolveDirectoryTree(details)
resolveDirectoryTree(details) ==
    LET root == resolve(Empty, details.root)
    IN  [root |-> root,
         outDirectory |-> resolve(root, details.outDirectory),
         directory |-> resolve(root, details.directory),
         entryPoint |-> details.entryPoint,
         exitPoint |-> details.exitPoint,
         uploadDirectory |-> details.uploadDirectory]

\* A conversion that forgets the leading slash.
directoryToEndpointMutant(t, directory) == relative(t.directory, directory)

\* directoryToEndpoint of the resolved tree t
directoryToEndpoint(t, directory) == join(Slash, relative(t.directory, directory))

\* A conversion that resolves the directory itself against the out directory.
directoryToOutDirectoryMutant(t, directory) == resolve(t.outDirectory, directory)

\* directoryToOutDirectory of the resolved tree t
directoryToOutDirectory(t, directory) ==
    resolve(t.outDirectory, relative(t.directory, directory))

\* directoryToHandler of the resolved tree t
directoryToHandler(t, directory) == join(directoryToOutDirectory(t, directory), t.exitPoint)

\* directoryToUploadDirectory of the resolved tree t
directoryToUploadDirectory(t, directory) ==
    join(directoryToOutDirectory(t, directory), t.uploadDirectory)

\* The names of the directories below the routes directory.
Names == {"v1", "rest"}

RECURSIVE SeqsUpTo(_, _)
\* The sequences over S of length n or less.
SeqsUpTo(S, n) ==
    IF n = 0 THEN {<<>>}
    ELSE LET shorter == SeqsUpTo(S, n - 1)
         IN  shorter \cup {Append(s, x) : s \in shorter, x \in S}

\* The positions below the routes directory that are converted.
Rels == SeqsUpTo(Names, MaxDepth)

\* The details resolveDirectoryTree is called with: the project root written
\* as '/p', '/p/', 'p' or '/p/../q', the routes directory as 'src', '.',
\* 'src/api' or '/r', and the out directory as '.bronya' or 'src/.out'.
Details ==
    [root : {Path(TRUE, <<"p">>, FALSE), Path(TRUE, <<"p">>, TRUE),
             Path(FALSE, <<"p">>, FALSE), Path(TRUE, <<"p", "..", "q">>, FALSE)},
     directory : {Path(FALSE, <<"src">>, FALSE), Dot,
                  Path(FALSE, <<"src", "api">>, FALSE), Path(TRUE, <<"r">>, FALSE)},
     outDirectory : {Path(FALSE, <<".bronya">>, FALSE), Path(FALSE, <<"src", ".out">>, FALSE)},
     entryPoint : {Path(FALSE, <<"+endpoint.ts">>, FALSE)},
     exitPoint : {Path(FALSE, <<"handler.js">>, FALSE)},
     uploadDirectory : {Path(FALSE, <<"dist">>, FALSE)}]

\* The ways the directory at position rel below base is written: normalized,
\* with a trailing separator, with a "." segment, with a detour through "..".
Spellings == {"plain", "trailing", "dot", "detour"}

Spell(base, rel, how) ==
    CASE how = "plain"    -> Path(TRUE, base.segs \o rel, FALSE)
      [] how = "trailing" -> Path(TRUE, base.segs \o rel, base.segs \o rel # <<>>)
      [] how = "dot"      -> Path(TRUE, base.segs \o <<".">> \o rel, FALSE)
      [] OTHER            -> Path(TRUE, base.segs \o rel \o <<"x", "..">>, FALSE)

\* No tree has been resolved.
NoTree ==
    [root |-> Empty, outDirectory |-> Empty, directory |-> Empty, entryPoint |-> Empty,
     exitPoint |-> Empty, uploadDirectory |-> Empty]

\* A call of resolveDirectoryTree with the given details, before it runs.
TreeCall(details) ==
    [pc |-> "details", details |-> details, resolved |-> NoTree, rel |-> <<>>,
     directory |-> Empty, endpoint |-> Empty, outDirectory |-> Empty, handler |-> Empty,
     uploadDirectory |-> Empty]

\* resolveDirectoryTree is not being called.
NoTreeCall == [TreeCall(NoTree) EXCEPT !.pc = "none"]

\* decode is not being called.
NoDecodeCall == [pc |-> "none"]

\* Neither getAppPlugins nor findNestedBronyaConstructs is being called.
NoFindCall == [pc |-> "none"]

\* buildApiRoute is not being called.
NoBuildCall == [pc |-> "none"]

\* No function of the library is being called.
NoCalls ==
    /\ decoding = NoDecodeCall
    /\ finding = NoFindCall
    /\ building = NoBuildCall

\* No files, no watcher and no work.
NoWatcher ==
    /\ files = <<>>
    /\ pending = {}
    /\ jobs = <<>>
    /\ rebuilds = <<>>
    /\ loaded = <<>>
    /\ functions = {}

\* No Api construct.
NoApi == [revision |-> "none", config |-> <<>>, routes |-> <<>>]

\* Api.init is not being run.
ApiAtRest ==
    /\ api = NoApi
    /\ disk = <<>>
    /\ procs = <<>>
    /\ initPc = "idle"

\* ---------------------------------------------------------------------------
\* Initial state: startExpressApiDevelopmentServer has been called
\* ---------------------------------------------------------------------------

NewTask(r, w) ==
    [route |-> r, watch |-> w, pc |-> "idle", src |-> NoFile, built |-> NoFile,
     t |-> 0, rid |-> 0, mod |-> NoFile]

\* No request is being answered.
NoRequest == [pc |-> "none"]

Init ==
    /\ source \in [Routes -> Contents(0)]
    /\ outFile = [r \in Routes |-> NoFile]
    /\ format \in {"cjs", "esm"}
    /\ now = 0
    /\ requireCache = [r \in Routes |-> NoFile]
    /\ esmCache = [u \in Routes \X Times |-> NoFile]
    /\ heap = <<>>
    /\ routers = [r \in Routes |-> 0]
    /\ router = <<>>
    /\ tasks = [i \in 1..N |-> NewTask(apiRoutes[i], FALSE)]
    /\ mainPc = "init"
    /\ changes = 0
    /\ alive = TRUE
    /\ req = NoRequest
    /\ ApiAtRest
    /\ tree = NoTreeCall
    /\ NoCalls
    /\ NoWatcher

\* startExpressApiDevelopmentServer has not been called.
GatewayAtRest ==
    /\ source = [r \in Routes |-> [ver |-> 0, kind |-> "ok", exports |-> ExportsOf(0)]]
    /\ outFile = [r \in Routes |-> NoFile]
    /\ format = "esm"
    /\ now = 0
    /\ requireCache = [r \in Routes |-> NoFile]
    /\ esmCache = [u \in Routes \X Times |-> NoFile]
    /\ heap = <<>>
    /\ routers = [r \in Routes |-> 0]
    /\ router = <<>>
    /\ tasks = [i \in 1..N |-> NewTask(apiRoutes[i], FALSE)]
    /\ mainPc = "init"
    /\ changes = 0
    /\ alive = TRUE
    /\ req = NoRequest

\* ---------------------------------------------------------------------------
\* Helpers
\* ---------------------------------------------------------------------------

Range(s) == {s[k] : k \in 1..Len(s)}

StartupTasks == 1..N

WatchTasks == {i \in DOMAIN tasks : tasks[i].watch}

\* A rejected promise.  The rejection of a startup build or load rejects
\* Promise.all and with it startExpressApiDevelopmentServer; the rejection of
\* a watcher callback is handled by nobody: node either only reports it or
\* terminates the process, depending on its version and flags.
Reject(i) ==
    IF tasks[i].watch
    THEN /\ mainPc' = mainPc
         /\ alive' \in BOOLEAN
    ELSE /\ mainPc' = IF mainPc \in {"build", "load"} THEN "rejected" ELSE mainPc
         /\ alive' = alive

\* What esbuild compiles: the entry file as it was when the build was started
\* or as it is when esbuild gets to read it.
BuildInputs(i) == {tasks[i].src, source[tasks[i].route]}

\* apiRouteRouter[expressMethod] is a function: expressMethod is one of the
\* strings of HttpMethodsToExpress.  For an inherited property it is a
\* function of Object.prototype, the Router has no such member and the call
\* throws a TypeError.
Registers(name) == name \in DOMAIN HttpMethodsToExpress

RECURSIVE Registrable(_)
\* The exported names that pass isMethod, up to the first whose registration
\* throws: forEach stops there.
Registrable(names) ==
    IF names = <<>> \/ ~Registers(Head(names)) THEN <<>>
    ELSE <<Head(names)>> \o Registrable(Tail(names))

\* The registration of the handlers of the module throws.
RegistrationThrows(mod) ==
    \E k \in 1..Len(mod.exports) : isMethod(mod.exports[k]) /\ ~Registers(mod.exports[k])

\* The handlers loadEndpoint registers for a loaded module: one layer per
\* exported name that passes isMethod, on the route's endpoint.
Layers(r, mod) ==
    LET names == Registrable(SelectSeq(mod.exports, isMethod))
    IN  [k \in 1..Len(names) |->
            [m |-> HttpMethodsToExpress[names[k]], path |-> r, mod |-> mod]]

\* refreshRouter: a new global router on which every defined per-route
\* Router is mounted, in the order of apiRoutes.
refreshRouter(rs) ==
    LET defined == SelectSeq(apiRoutes, LAMBDA r : rs[r] # 0)
    IN  [k \in 1..Len(defined) |-> rs[defined[k]]]

\* The synchronous part of loadEndpoint for task i, on the state
\* st = [heap, routers, requireCache, tasks]: a new Router replaces the
\* route's entry in routers; format 'cjs' loads the file through require and
\* registers the handlers at once, the other formats call import() and wait.
loadEndpointSync(st, i) ==
    LET r   == st.tasks[i].route
        id  == Len(st.heap) + 1
        h1  == Append(st.heap, <<>>)
        rs1 == [st.routers EXCEPT ![r] = id]
    IN  IF format = "cjs"
        THEN LET cached == st.requireCache[r]
                 mod    == IF cached # NoFile THEN cached ELSE outFile[r]
             IN  IF mod.kind = "ok"
                 THEN [heap |-> [h1 EXCEPT ![rs1[r]] = @ \o Layers(r, mod)],
                       routers |-> rs1,
                       requireCache |-> [st.requireCache EXCEPT ![r] = mod],
                       tasks |-> [st.tasks EXCEPT
                                     ![i].pc = IF RegistrationThrows(mod)
                                               THEN "failed" ELSE "loaded",
                                     ![i].rid = id, ![i].mod = mod]]
                 ELSE [heap |-> h1,
                       routers |-> rs1,
                       requireCache |-> st.requireCache,
                       tasks |-> [st.tasks EXCEPT ![i].pc = "failed", ![i].rid = id]]
        ELSE [heap |-> h1,
              routers |-> rs1,
              requireCache |-> st.requireCache,
              tasks |-> [st.tasks EXCEPT ![i].pc = "importing", ![i].rid = id,
                                         ![i].t = now]]

RECURSIVE loadAll(_, _)
\* apiRoutes.map(loadEndpoint): the synchronous parts run one after another.
loadAll(st, i) ==
    IF i > N THEN st ELSE loadAll(loadEndpointSync(st, i), i + 1)

\* ---------------------------------------------------------------------------
\* Startup
\* ---------------------------------------------------------------------------

\* Promise.all(apiRoutes.map(buildApiRoute)): every route's out directory is
\* removed and its build started before the first await.
StartBuilds ==
    /\ alive
    /\ mainPc = "init"
    /\ outFile' = [r \in Routes |-> NoFile]
    /\ tasks' = [i \in DOMAIN tasks |->
                    [tasks[i] EXCEPT !.pc = "building", !.src = source[tasks[i].route]]]
    /\ mainPc' = "build"
    /\ UNCHANGED <<apiVars, callVars, devVars, req, source, format, now, requireCache, esmCache, heap, routers, router,
                   changes, alive>>

\* esbuild finishes the build of task i: it writes the compiled file, or
\* rejects with its diagnostics and writes nothing.
BuildFinish(i) ==
    /\ alive
    /\ tasks[i].pc = "building"
    /\ \E s \in BuildInputs(i) :
          IF s.kind = "buildError"
          THEN /\ tasks' = [tasks EXCEPT ![i].pc = "failed"]
               /\ Reject(i)
               /\ UNCHANGED outFile
          ELSE /\ tasks' = [tasks EXCEPT ![i].pc = "built", ![i].built = s]
               /\ outFile' = [outFile EXCEPT ![tasks[i].route] = s]
               /\ UNCHANGED <<mainPc, alive>>
    /\ UNCHANGED <<apiVars, callVars, devVars, req, source, format, now, requireCache, esmCache, heap, routers, router,
                   changes>>

\* The join of the startup builds.
AllBuilt == \A i \in StartupTasks : tasks[i].pc = "built"

\* Promise.all(apiRoutes.map(loadEndpoint)) after the builds have been joined.
StartLoads ==
    /\ alive
    /\ mainPc = "build"
    /\ AllBuilt
    /\ LET st == loadAll([heap |-> heap, routers |-> routers,
                          requireCache |-> requireCache, tasks |-> tasks], 1)
       IN  /\ heap' = st.heap
           /\ routers' = st.routers
           /\ requireCache' = st.requireCache
           /\ tasks' = st.tasks
           /\ mainPc' = IF \E i \in StartupTasks : st.tasks[i].pc = "failed"
                        THEN "rejected" ELSE "load"
    /\ UNCHANGED <<apiVars, callVars, devVars, req, source, outFile, format, now, esmCache, router, changes, alive>>

\* import() of task i settles.  The module map is keyed by the URL
\* `${file}?update=${Date.now()}`: a URL already in the map yields the module
\* loaded before, a new URL reads and evaluates the file.  The handlers are
\* registered on the Router that routers holds for the route at this moment.
LoadFinish(i) ==
    /\ alive
    /\ tasks[i].pc = "importing"
    /\ LET r      == tasks[i].route
           url    == <<r, tasks[i].t>>
           cached == esmCache[url]
           mod    == IF cached # NoFile THEN cached ELSE outFile[r]
       IN  IF mod.kind = "ok"
           THEN /\ esmCache' = [esmCache EXCEPT ![url] = mod]
                /\ heap' = [heap EXCEPT ![routers[r]] = @ \o Layers(r, mod)]
                /\ IF RegistrationThrows(mod)
                   THEN /\ tasks' = [tasks EXCEPT ![i].pc = "failed", ![i].mod = mod]
                        /\ Reject(i)
                   ELSE /\ tasks' = [tasks EXCEPT ![i].pc = "loaded", ![i].mod = mod]
                        /\ UNCHANGED <<mainPc, alive>>
           ELSE /\ tasks' = [tasks EXCEPT ![i].pc = "failed"]
                /\ Reject(i)
                /\ UNCHANGED <<esmCache, heap>>
    /\ UNCHANGED <<apiVars, callVars, devVars, req, source, outFile, format, now, requireCache, routers, router, changes>>

\* A join that waits for the first load only.
AllLoadedMutant == \E i \in StartupTasks : tasks[i].pc = "loaded"

\* The join of the startup loads.
AllLoaded == \A i \in StartupTasks : tasks[i].pc = "loaded"

\* .then(refreshRouter) of the startup loads.
StartupRefresh ==
    /\ alive
    /\ mainPc = "load"
    /\ AllLoaded
    /\ router' = refreshRouter(routers)
    /\ tasks' = [i \in DOMAIN tasks |-> [tasks[i] EXCEPT !.pc = "done"]]
    /\ mainPc' = "refreshed"
    /\ UNCHANGED <<apiVars, callVars, devVars, req, source, outFile, format, now, requireCache, esmCache, heap, routers,
                   changes, alive>>

\* app.listen
Listen ==
    /\ alive
    /\ mainPc = "refreshed"
    /\ mainPc' = "listening"
    /\ UNCHANGED <<apiVars, callVars, devVars, req, source, outFile, format, now, requireCache, esmCache, heap, routers,
                   router, tasks, changes, alive>>

\* ---------------------------------------------------------------------------
\* The watcher
\* ---------------------------------------------------------------------------

\* The developer saves the entry file of route r and the watcher delivers
\* 'change': the callback finds the route and buildApiRoute removes the out
\* directory and starts esbuild.
ChangeEvent(r) ==
    /\ alive
    /\ mainPc = "listening"
    /\ changes < MaxChanges
    /\ \E c \in Contents(source[r].ver + 1) :
          /\ source' = [source EXCEPT ![r] = c]
          /\ tasks' = Append(tasks, [NewTask(r, TRUE) EXCEPT !.pc = "building", !.src = c])
    /\ outFile' = [outFile EXCEPT ![r] = NoFile]
    /\ changes' = changes + 1
    /\ UNCHANGED <<apiVars, callVars, devVars, req, format, now, requireCache, esmCache, heap, routers, router, mainPc,
                   alive>>

\* The callback of task i resumes after `await buildApiRoute` and calls
\* loadEndpoint.
LoadStart(i) ==
    /\ alive
    /\ tasks[i].watch
    /\ tasks[i].pc = "built"
    /\ LET st == loadEndpointSync([heap |-> heap, routers |-> routers,
                                   requireCache |-> requireCache, tasks |-> tasks], i)
       IN  /\ heap' = st.heap
           /\ routers' = st.routers
           /\ requireCache' = st.requireCache
           /\ tasks' = st.tasks
           /\ IF st.tasks[i].pc = "failed"
              THEN Reject(i)
              ELSE UNCHANGED <<mainPc, alive>>
    /\ UNCHANGED <<apiVars, callVars, devVars, req, source, outFile, format, now, esmCache, router, changes>>

\* The callback of task i resumes after `await loadEndpoint` and calls
\* refreshRouter.
Refresh(i) ==
    /\ alive
    /\ tasks[i].watch
    /\ tasks[i].pc = "loaded"
    /\ router' = refreshRouter(routers)
    /\ tasks' = [tasks EXCEPT ![i].pc = "done"]
    /\ UNCHANGED <<apiVars, callVars, devVars, req, source, outFile, format, now, requireCache, esmCache, heap, routers,
                   mainPc, changes, alive>>

\* The clock advances.
Tick ==
    /\ alive
    /\ now < MaxTime
    /\ now' = now + 1
    /\ UNCHANGED <<apiVars, callVars, devVars, req, source, outFile, format, requireCache, esmCache, heap, routers,
                   router, tasks, mainPc, changes, alive>>

Next ==
    \/ StartBuilds
    \/ \E i \in DOMAIN tasks : BuildFinish(i)
    \/ StartLoads
    \/ \E i \in DOMAIN tasks : LoadFinish(i)
    \/ StartupRefresh
    \/ Listen
    \/ \E r \in Routes : ChangeEvent(r)
    \/ \E i \in DOMAIN tasks : LoadStart(i)
    \/ \E i \in DOMAIN tasks : Refresh(i)
    \/ Tick

Spec == Init /\ [][Next]_vars

TypeOK ==
    /\ now \in Times
    /\ changes \in 0..MaxChanges
    /\ mainPc \in {"init", "build", "load", "refreshed", "listening", "rejected"}
    /\ \A r \in Routes : routers[r] \in 0..Len(heap)
    /\ Range(router) \subseteq 1..Len(heap)

\* ---------------------------------------------------------------------------
\* Request dispatch: app.use((req, res, next) => router(req, res, next))
\* ---------------------------------------------------------------------------

\* No layer matches: express answers 404.
NotFound == [m |-> "none", path |-> <<>>, mod |-> NoFile]

IsPrefix(p, q) == Len(p) <= Len(q) /\ SubSeq(q, 1, Len(p)) = p

\* A router whose `get` layers do not answer HEAD.
MatchesMutant(layer, m, p) ==
    \/ layer.m = "use" /\ IsPrefix(layer.path, p)
    \/ layer.m = m /\ layer.path = p

\* A layer registered with router.use(path, h) matches every method and every
\* path below `path`; a layer registered with router.<verb>(path, h) matches
\* the verb on that path, and a `get` layer also answers HEAD.
Matches(layer, m, p) ==
    \/ layer.m = "use" /\ IsPrefix(layer.path, p)
    \/ layer.m = m /\ layer.path = p
    \/ layer.m = "get" /\ m = "head" /\ layer.path = p

RECURSIVE Flatten(_, _)
\* The layers a request traverses: those of every mounted Router, in order.
Flatten(table, hp) ==
    IF table = <<>> THEN <<>> ELSE hp[Head(table)] \o Flatten(Tail(table), hp)

\* The layer that answers method m on path p in the table, or NotFound.
Dispatch(table, hp, m, p) ==
    LET ls == SelectSeq(Flatten(table, hp), LAMBDA l : Matches(l, m, p))
    IN  IF ls = <<>> THEN NotFound ELSE Head(ls)

\* The express methods a request may carry.
RequestMethods == {"get", "post", "head"}

\* What the gateway does with a request: a handler of a loaded module is
\* invoked, or no layer matches and express answers 404.
Answer(table, hp, m, p) ==
    LET l == Dispatch(table, hp, m, p)
    IN  IF l = NotFound THEN [status |-> "404", mod |-> NoFile]
        ELSE [status |-> "handler", mod |-> l.mod]

\* ---------------------------------------------------------------------------
\* Properties of the gateway
\* ---------------------------------------------------------------------------

\* Task i has finished its loadEndpoint.
Loaded(i) == tasks[i].pc \in {"loaded", "done"}

\* Task i is between the removal of its route's out directory and the end of
\* its loadEndpoint.
Rebuilding(i) == tasks[i].pc \in {"building", "built", "importing"}

\* The step is a refreshRouter: some task completes.
RefreshStep ==
    \E i \in DOMAIN tasks : tasks[i].pc # "done" /\ tasks'[i].pc = "done"

\* The Router of route r mounted on the table holds exactly the handler set
\* that one finished loadEndpoint of r registered.
HoldsFinishedLoad(table, hp, tks, r) ==
    \E k \in 1..Len(table) : \E j \in DOMAIN tks :
        /\ tks[j].route = r
        /\ tks[j].pc \in {"loaded", "done"}
        /\ hp[table[k]] = Layers(r, tks[j].mod)
        /\ \E i \in DOMAIN tks : tks[i].route = r /\ tks[i].rid = table[k]

\* The table holds a Router that a loadEndpoint still waiting for its import
\* has created and nobody has populated.
HoldsPendingRouter(table, hp, tks) ==
    \E k \in 1..Len(table) : \E i \in DOMAIN tks :
        /\ tks[i].pc = "importing"
        /\ tks[i].rid = table[k]
        /\ hp[table[k]] = <<>>

\* The watcher callbacks that have not finished are for different routes.
DifferentRoutesInFlight ==
    \A i, j \in WatchTasks :
        (i # j /\ tasks[i].route = tasks[j].route)
            => (tasks[i].pc \in {"done", "failed"} \/ tasks[j].pc \in {"done", "failed"})

\* C1: when the watcher callbacks in flight are for different routes, every
\* table installed by refreshRouter holds, for every route that has completed
\* a load, the complete handler set of a finished loadEndpoint of that route,
\* and never the still empty Router of a loadEndpoint whose import is pending.
C1_InstalledTableComplete ==
    [][(RefreshStep /\ DifferentRoutesInFlight) =>
        /\ ~HoldsPendingRouter(router', heap', tasks')
        /\ \A r \in Routes :
              (\E j \in DOMAIN tasks' : tasks'[j].route = r /\ tasks'[j].pc \in {"loaded", "done"})
                  => HoldsFinishedLoad(router', heap', tasks', r)]_vars

\* C2: no handler is registered on or removed from a Router that is reachable
\* from the global router; the table changes only by new Routers and the
\* reassignment of the reference.
C2_ReachableRouterNeverMutated ==
    [][\A id \in Range(router) : heap'[id] = heap[id]]_vars

\* The step belongs to the change event of a watcher callback for route a.
StepOfChange(a) ==
    \/ Len(tasks') > Len(tasks) /\ tasks'[Len(tasks')].route = a
    \/ \E i \in DOMAIN tasks :
          tasks[i].watch /\ tasks[i].route = a /\ tasks'[i] # tasks[i]

\* C3: a change event for route a leaves the Router of every other route b in
\* routers, its handlers, and the handler that answers each (method, path) of
\* b unchanged, while the rebuild of a is in flight and when it completes.
C3_OtherRoutesUntouched ==
    [][\A a \in Routes : StepOfChange(a) =>
          \A b \in Routes \ {a} :
              /\ routers'[b] = routers[b]
              /\ routers[b] # 0 => heap'[routers[b]] = heap[routers[b]]
              /\ \A m \in RequestMethods :
                    Answer(router', heap', m, b) = Answer(router, heap, m, b)]_vars

\* The latest rebuild of route r that has ended, ended in a failure.
LastRebuildFailed(r) ==
    \E i \in DOMAIN tasks :
        /\ tasks[i].watch /\ tasks[i].route = r /\ tasks[i].pc = "failed"
        /\ \A j \in DOMAIN tasks :
              (j > i /\ tasks[j].route = r) => Rebuilding(j)

\* C4: after a failed build or load of a watcher-triggered rebuild, every
\* request to the route is answered with status 500 (never by a handler of an
\* earlier build) until a later rebuild succeeds, for as long as the gateway
\* is running.
C4_FailedRouteAnswers500 ==
    \A r \in Routes : (LastRebuildFailed(r) /\ alive) =>
        \A m \in RequestMethods : Answer(router, heap, m, r).status = "500"

\* C5: no two rebuilds of the same route are in progress at once.
C5_RebuildsSerialized ==
    \A i, j \in DOMAIN tasks :
        (i # j /\ tasks[i].route = tasks[j].route) => ~(Rebuilding(i) /\ Rebuilding(j))

\* Every callback has finished and the route's source is loadable.
Quiescent(r) ==
    /\ mainPc = "listening"
    /\ \A i \in DOMAIN tasks : tasks[i].pc = "done"
    /\ source[r].kind = "ok"

\* C6: once the change events have stopped and every watcher callback has
\* finished, the installed Router of a route has exactly one handler per
\* exported method, of a build of the latest source.
C6_LatestSourceInstalled ==
    \A r \in Routes : Quiescent(r) =>
        \E k \in 1..Len(router) :
            /\ router[k] = routers[r]
            /\ heap[router[k]] = Layers(r, source[r])

\* C7: the listener is opened only after every route has finished its build
\* and its load and refreshRouter has installed the table of those loads.
C7_ListenAfterStartup ==
    mainPc = "listening" =>
        /\ \A i \in StartupTasks :
              tasks[i].pc = "done" /\ tasks[i].built # NoFile /\ tasks[i].mod # NoFile
        /\ changes = 0 =>
              /\ router = [k \in 1..N |-> tasks[k].rid]
              /\ \A k \in 1..N : heap[router[k]] = Layers(apiRoutes[k], tasks[k].mod)

\* The listener is open, no change has been delivered yet, and a request to a
\* route is answered by a handler.
C7_Witness ==
    /\ mainPc = "listening"
    /\ changes = 0
    /\ Answer(router, heap, "get", apiRoutes[N]).status = "handler"

\* C8: a route whose build or load fails during startup does not abort the
\* startup of its siblings: startExpressApiDevelopmentServer goes on to load,
\* publish and listen.
C8_StartupSurvivesFailure ==
    (\E i \in StartupTasks : tasks[i].pc = "failed") => mainPc # "rejected"

\* C10: every finished loadEndpoint has registered the handlers of the module
\* file as written by the build that preceded it.
C10_LoadsFreshModule ==
    \A i \in DOMAIN tasks : Loaded(i) => tasks[i].mod = tasks[i].built

\* ---------------------------------------------------------------------------
\* Strings, buffers and decode
\* ---------------------------------------------------------------------------

\* A string is its bytes together with how it is written: the text itself
\* ("utf8") or the base64 text of the bytes ("base64").
Text(bytes) == [enc |-> "utf8", bytes |-> bytes]

Base64(bytes) == [enc |-> "base64", bytes |-> bytes]

\* The value `undefined`.
Undefined == [enc |-> "undefined", bytes |-> <<>>]

RECURSIVE Sum(_)
Sum(bytes) == IF bytes = <<>> THEN 0 ELSE Head(bytes) + Sum(Tail(bytes))

\* A gzip stream: magic 1F 8B, method 8, flags, the data and a trailer of
\* checksum and length (eight bytes for the empty string).
Gzip(data) == <<31, 139, 8, 0>> \o data \o <<Sum(data) % 256, 0, 0, Len(data)>>

\* A zlib stream: header 78 9C, a block header, the data and a checksum
\* (eight bytes for the empty string).
Zlib(data) == <<120, 156, 1, Len(data)>> \o data \o <<Sum(data) % 256, 0, 0, 0>>

\* The result of a decompression that throws.
Malformed == [enc |-> "error", bytes |-> <<>>]

\* zlib.gunzipSync(buffer).toString()
gunzipSync(buffer) ==
    LET n    == Len(buffer)
        data == SubSeq(buffer, 5, n - 4)
    IN  IF /\ n >= 8
           /\ SubSeq(buffer, 1, 4) = <<31, 139, 8, 0>>
           /\ SubSeq(buffer, n - 3, n) = <<Sum(data) % 256, 0, 0, Len(data)>>
        THEN Text(data) ELSE Malformed

\* zlib.inflateSync(buffer).toString()
inflateSync(buffer) ==
    LET n    == Len(buffer)
        data == SubSeq(buffer, 5, n - 4)
    IN  IF /\ n >= 8
           /\ buffer[1] = 120
           /\ (buffer[1] * 256 + buffer[2]) % 31 = 0
           /\ SubSeq(buffer, 3, 4) = <<1, Len(data)>>
           /\ SubSeq(buffer, n - 3, n) = <<Sum(data) % 256, 0, 0, 0>>
        THEN Text(data) ELSE Malformed

\* A decode that sniffs the magic numbers before it looks at the length.
decodeMutant(encodedString) ==
    LET buffer == encodedString.bytes
    IN  IF Len(buffer) >= 2 /\ buffer[1] = 31 /\ buffer[2] = 139 THEN gunzipSync(buffer)
        ELSE IF Len(buffer) >= 1 /\ buffer[1] = 120 THEN inflateSync(buffer)
        ELSE Text(buffer)

\* decode(encodedString): the text of the base64-decoded buffer, gunzipped or
\* inflated when the buffer has eight bytes or more and starts with the magic
\* number of the format; Malformed when the decompression throws.
decode(encodedString) ==
    LET buffer == encodedString.bytes
    IN  IF Len(buffer) < 8 THEN Text(buffer)
        ELSE IF buffer[1] = 31 /\ buffer[2] = 139 THEN gunzipSync(buffer)
        ELSE IF buffer[1] = 120 THEN inflateSync(buffer)
        ELSE Text(buffer)

\* The texts "hi" and "{}", and the JSON texts among the modelled ones.
Hi == <<104, 105>>

EmptyObject == <<123, 125>>

IsJson(str) == str.enc = "utf8" /\ str.bytes = EmptyObject

\* The buffers a handler may encode in base64: short ones, compressed ones,
\* compressed ones with a broken trailer, and plain text that starts with a
\* magic number ("xylophone") or does not ("hello world").
Buffers ==
    {Hi, <<31, 139, 104>>,
     Gzip(EmptyObject), Gzip(Hi), <<31, 139, 8, 0, 104, 105, 0, 0, 0, 0>>,
     Zlib(EmptyObject), Zlib(Hi),
     <<120, 121, 108, 111, 112, 104, 111, 110, 101>>,
     <<104, 101, 108, 108, 111, 32, 119, 111, 114, 108, 100>>}

\* The results a handler may return: a status code (0 when it is missing),
\* headers or none, and a body that is base64 when the result says so.
Results ==
    [statusCode : {200, 0}, headers : BOOLEAN, isBase64Encoded : {TRUE},
     body : {Base64(b) : b \in Buffers}]
        \cup [statusCode : {200, 0}, headers : BOOLEAN, isBase64Encoded : {FALSE},
              body : {Text(Hi), Text(EmptyObject), Base64(Hi), Undefined}]

\* ---------------------------------------------------------------------------
\* wrapExpressHandler
\* ---------------------------------------------------------------------------

NoBody == [enc |-> "none", bytes |-> <<>>]

\* How a hook of ServerHooks behaves.
HookBehaviours == {"absent", "nullish", "throws"}

\* How the handler uses the callback it is given.
CallbackUses == {"none", "error", "noResponse", "response"}

\* How the handler ends.
Outcomes == {"throws", "falsy", "result"}

\* The body of the 404 page of express.
NotFoundPage == Text(<<52, 48, 52>>)

\* A request with method m for the endpoint p arrives at the listening
\* gateway: express dispatches it to the wrapped handler of the first
\* matching layer of the installed table, or answers 404 when none matches.
Arrive ==
    /\ req = NoRequest
    /\ alive
    /\ mainPc = "listening"
    /\ \E m \in RequestMethods, p \in Routes :
          LET layer == Dispatch(router, heap, m, p)
              r == [pc |-> "transformExpressParams", method |-> m, path |-> p,
                    layer |-> layer, calls |-> 0, sent |-> 0, nexts |-> 0,
                    status |-> 200, out |-> NoBody, result |-> Undefined,
                    threw |-> "none"]
          IN  IF layer = NotFound
              THEN req' = [r EXCEPT !.pc = "done", !.sent = 1, !.status = 404,
                                    !.out = IF m = "head" THEN NoBody ELSE NotFoundPage]
              ELSE req' = r
    /\ UNCHANGED gatewayVars

\* await maybeTransform(value, hook) for the request r: a hook that is absent
\* or returns a nullish value leaves the params as they are, a hook that
\* throws rejects the wrapper.
maybeTransform(r, hook, nextPc) ==
    IF hook = "throws"
    THEN [r EXCEPT !.pc = "rejected", !.threw = "hook"]
    ELSE [r EXCEPT !.pc = nextPc]

\* const resolvedExpressParams = await maybeTransform(expressParams, ...)
TransformExpressParams ==
    /\ req # NoRequest
    /\ req.pc = "transformExpressParams"
    /\ \E hook \in HookBehaviours : req' = maybeTransform(req, hook, "transformParams")
    /\ UNCHANGED gatewayVars

\* const resolvedApiGatewayParams = await maybeTransform(apiGatewayParams, ...)
TransformParams ==
    /\ req # NoRequest
    /\ req.pc = "transformParams"
    /\ \E hook \in HookBehaviours : req' = maybeTransform(req, hook, "handler")
    /\ UNCHANGED gatewayVars

\* What res.send(body) and res.json(body) write for the request r: nothing
\* after the headers when the request is a HEAD, the body otherwise.
send(r, body) == IF r.method = "head" THEN NoBody ELSE body

\* The callback of expressParamsToApiGatewayParams, as the handler uses it.
callback(r, use) ==
    CASE use = "none"       -> r
      [] use = "error"      -> [r EXCEPT !.calls = @ + 1, !.nexts = @ + 1]
      [] use = "noResponse" -> [r EXCEPT !.calls = @ + 1, !.nexts = @ + 1]
      [] OTHER              -> [r EXCEPT !.calls = @ + 1, !.sent = 1, !.status = 200,
                                         !.out = send(r, Text(EmptyObject))]

\* await handler(event, context, callback)
Handler ==
    /\ req # NoRequest
    /\ req.pc = "handler"
    /\ \E use \in CallbackUses, outcome \in Outcomes :
          LET r == callback(req, use)
          IN  CASE outcome = "throws" -> req' = [r EXCEPT !.pc = "rejected", !.threw = "handler"]
                [] outcome = "falsy"  -> req' = [r EXCEPT !.pc = "done"]
                [] OTHER -> \E result \in Results :
                               req' = [r EXCEPT !.pc = "translate", !.result = result]
    /\ UNCHANGED gatewayVars

\* res.send(body) on the request r: it throws when the headers have been sent
\* already or the status code is not a valid one.
sendThrows(r) == r.sent = 1 \/ r.status = 0

\* The translation of the result: res.status, res.set, decode, and
\* res.send of the parsed body or, when that throws, of result.body.
Translate ==
    /\ req # NoRequest
    /\ req.pc = "translate"
    /\ LET result == req.result
           r1     == [req EXCEPT !.status = result.statusCode]
           body   == IF result.isBase64Encoded THEN decode(result.body) ELSE result.body
       IN  IF result.headers /\ req.sent = 1
           THEN req' = [r1 EXCEPT !.pc = "rejected", !.threw = "set"]
           ELSE IF body = Malformed
           THEN req' = [r1 EXCEPT !.pc = "rejected", !.threw = "decode"]
           ELSE IF IsJson(body)
           THEN IF sendThrows(r1)
                THEN req' = [r1 EXCEPT !.pc = "rejected", !.threw = "send", !.calls = @ + 2]
                ELSE req' = [r1 EXCEPT !.pc = "done", !.calls = @ + 1, !.sent = 1,
                                       !.out = send(r1, body)]
           ELSE IF sendThrows(r1)
                THEN req' = [r1 EXCEPT !.pc = "rejected", !.threw = "send", !.calls = @ + 1]
                ELSE req' = [r1 EXCEPT !.pc = "done", !.calls = @ + 1, !.sent = 1,
                                       !.out = send(r1, result.body)]
    /\ UNCHANGED gatewayVars

\* A gateway that has started with one loadable version of every route.
RequestInit ==
    /\ source = [r \in Routes |-> [ver |-> 0, kind |-> "ok", exports |-> ExportsOf(0)]]
    /\ outFile = source
    /\ format = "esm"
    /\ now = 0
    /\ requireCache = [r \in Routes |-> NoFile]
    /\ esmCache = [u \in Routes \X Times |-> IF u[2] = 0 THEN source[u[1]] ELSE NoFile]
    /\ heap = [k \in 1..N |-> Layers(apiRoutes[k], source[apiRoutes[k]])]
    /\ routers = [r \in Routes |-> CHOOSE k \in 1..N : apiRoutes[k] = r]
    /\ router = [k \in 1..N |-> k]
    /\ tasks = [k \in 1..N |->
                   [NewTask(apiRoutes[k], FALSE) EXCEPT
                       !.pc = "done", !.src = source[apiRoutes[k]],
                       !.built = source[apiRoutes[k]], !.rid = k,
                       !.mod = source[apiRoutes[k]]]]
    /\ mainPc = "listening"
    /\ changes = 0
    /\ alive = TRUE
    /\ req = NoRequest
    /\ ApiAtRest
    /\ tree = NoTreeCall
    /\ NoCalls
    /\ NoWatcher

RequestNext ==
    \/ Arrive
    \/ TransformExpressParams
    \/ TransformParams
    \/ Handler
    \/ Translate

RequestSpec == RequestInit /\ [][RequestNext]_vars

\* C9: every request that wrapExpressHandler has finished with, by returning
\* or by throwing after its hooks have run, has received a response or has
\* been passed to next.
C9_EveryRequestAnswered ==
    (req # NoRequest /\ req.pc \in {"done", "rejected"} /\ req.threw # "hook")
        => (req.sent = 1 \/ req.nexts >= 1)

\* ---------------------------------------------------------------------------
\* Startup over every kind of entry module, followed by requests
\* ---------------------------------------------------------------------------

\* The entry files a route may have when the gateway starts: a loadable one
\* with each of the export lists, one that does not compile and one that
\* throws when it is evaluated.
StartContents ==
    {c \in UNION {Contents(v) : v \in 0..5} : c.kind = "ok" \/ c.ver = 0}

ServeInit ==
    /\ source \in [Routes -> StartContents]
    /\ outFile = [r \in Routes |-> NoFile]
    /\ format \in {"cjs", "esm"}
    /\ now = 0
    /\ requireCache = [r \in Routes |-> NoFile]
    /\ esmCache = [u \in Routes \X Times |-> NoFile]
    /\ heap = <<>>
    /\ routers = [r \in Routes |-> 0]
    /\ router = <<>>
    /\ tasks = [i \in 1..N |-> NewTask(apiRoutes[i], FALSE)]
    /\ mainPc = "init"
    /\ changes = 0
    /\ alive = TRUE
    /\ req = NoRequest
    /\ ApiAtRest
    /\ tree = NoTreeCall
    /\ NoCalls
    /\ NoWatcher

ServeNext ==
    \/ StartBuilds
    \/ \E i \in DOMAIN tasks : BuildFinish(i)
    \/ StartLoads
    \/ \E i \in DOMAIN tasks : LoadFinish(i)
    \/ StartupRefresh
    \/ Listen
    \/ Arrive
    \/ TransformExpressParams
    \/ TransformParams
    \/ Handler
    \/ Translate

ServeSpec == ServeInit /\ [][ServeNext]_vars

\* The module the startup has loaded for route r.
LoadedModule(r) == tasks[CHOOSE k \in StartupTasks : apiRoutes[k] = r].mod

\* The module of route r exports GET and does not export HEAD.
ExportsGetNotHead(r) ==
    LET names == Range(LoadedModule(r).exports)
    IN  "GET" \in names /\ "HEAD" \notin names

\* The handler has returned a result and the wrapper has sent its response.
ResultSent == req # NoRequest /\ req.pc = "done" /\ "statusCode" \in DOMAIN req.result

RecognizedNames == {"DELETE", "GET", "HEAD", "PATCH", "POST", "PUT", "OPTIONS", "ANY"}

\* C19: a loadEndpoint whose module has been evaluated completes without an
\* error and leaves on the route's Router one handler for every exported name
\* that is a recognized method name, and nothing for any other name (an empty
\* Router when no name is recognized).
C19_OnlyMethodNamesRegistered ==
    \A i \in DOMAIN tasks :
        (tasks[i].mod.kind = "ok" /\ tasks[i].pc \in {"loaded", "done", "failed"}) =>
            LET mod   == tasks[i].mod
                names == SelectSeq(mod.exports, LAMBDA n : n \in RecognizedNames)
            IN  /\ tasks[i].pc # "failed"
                /\ heap[tasks[i].rid] =
                      [k \in 1..Len(names) |->
                          [m |-> HttpMethodsToExpress[names[k]], path |-> tasks[i].route,
                           mod |-> mod]]

\* C20: when the result says isBase64Encoded, the body sent is the decoded
\* (and decompressed) body, as the parsed JSON document or as the plaintext
\* itself, and never the base64 text the handler returned.
C20_DecodedBodySent ==
    (ResultSent /\ req.result.isBase64Encoded /\ req.method # "head") =>
        /\ req.out = decode(req.result.body)
        /\ req.out # req.result.body

\* ---------------------------------------------------------------------------
\* The Api construct: its configuration and Api.init
\* ---------------------------------------------------------------------------

\* { ...a, ...b }: the fields of both objects, with b's value where both
\* have the field.
Spread(a, b) ==
    [k \in DOMAIN a \cup DOMAIN b |-> IF k \in DOMAIN b THEN b[k] ELSE a[k]]

\* value?.field ?? {} for an object that may lack the field
FieldOrEmpty(object, field) == IF field \in DOMAIN object THEN object[field] ELSE <<>>

\* A file or directory name as a path string.
File(name) == Path(FALSE, <<name>>, FALSE)

\* The two revisions of Api.init in the repository: the one that reads the
\* overrides from the built entry module, and the one that reads them from
\* the project's config file and knows the explicit `routes`.
ApiRevisions == {"overrides export", "project config"}

\* this.config of the root Api: the defaults of the constructor with the
\* user's config, which sets environment, the esbuild format and, in the
\* revision that has them, the explicit routes.
ApiConfig(revision, fmt, explicit) ==
    IF revision = "overrides export"
    THEN [root |-> Path(TRUE, <<"p">>, FALSE), directory |-> File("src"),
          entryPoint |-> File("+endpoint.ts"), outDirectory |-> File(".bronya"),
          exitPoint |-> File("handler.js"), uploadDirectory |-> File("dist"),
          esbuild |-> [format |-> fmt], environment |-> [X |-> "1"]]
    ELSE [root |-> Path(TRUE, <<"p">>, FALSE), directory |-> File("src"),
          entryPoint |-> File("+endpoint.ts"), outDirectory |-> File("dist"),
          exitPoint |-> File("handler.js"),
          esbuild |-> [format |-> fmt], environment |-> [X |-> "1"],
          routes |-> explicit]

\* The explicit routes a root config may carry: none, or one key routed to
\* the endpoint '/b'.
ExplicitRoutes == {<<>>, [alias |-> Path(TRUE, <<"b">>, FALSE)]}

\* The partial configurations a route may override the inherited one with:
\* nothing, a non-mapping field, a new or a shared key of the environment,
\* an endpoint, and an out directory.
Overrides ==
    {<<>>,
     [exitPoint |-> File("index.js")],
     [environment |-> [Y |-> "2"]],
     [environment |-> [X |-> "9"]],
     [endpoint |-> Slash],
     [outDirectory |-> File("out")]}

\* What a route directory holds: an entry file that builds and evaluates
\* ("ok") with the overrides of the route, one that does not compile
\* ("buildError"), or one whose evaluation throws ("loadError").
Projects ==
    {[kind |-> "ok", exports |-> IF o = <<>> THEN <<"GET">> ELSE <<"GET", "overrides">>,
      overrides |-> o] : o \in Overrides}
        \cup {[kind |-> k, exports |-> <<>>, overrides |-> <<>>] :
                k \in {"buildError", "loadError"}}

\* isHttpMethod of integrations/lambda
isHttpMethod(name) ==
    name \in {"DELETE", "GET", "HEAD", "PATCH", "POST", "PUT", "OPTIONS", "ANY"}

\* The absolute path of the route directory at position d below the routes
\* directory, as findDirectoriesWithFile and findAllProjects return it.
DirectoryAt(config, d) ==
    Spell(resolve(resolve(Empty, config.root), config.directory), d, "plain")

\* The route record processDirectory stores for the directory at position d:
\* the root config, the derived fields and then the overrides, spread in
\* this order.
processDirectory(config, d, project) ==
    LET t         == resolveDirectoryTree(config)
        directory == DirectoryAt(config, d)
        derived   == [directory |-> directory,
                      endpoint |-> directoryToEndpoint(t, directory),
                      entryPoint |-> resolve(directory, config.entryPoint),
                      exitPoint |-> config.exitPoint,
                      methods |-> SelectSeq(project.exports, isHttpMethod),
                      outDirectory |-> directoryToOutDirectory(t, directory)]
    IN  Spread(Spread(config, derived), project.overrides)

\* mergedProps of the revision with project config files: the override's
\* config spread first and the root config after it, also inside esbuild and
\* environment.
mergedProps(config, override) ==
    Spread(Spread(override, config),
           [esbuild |-> Spread(FieldOrEmpty(override, "esbuild"), config.esbuild),
            environment |-> Spread(FieldOrEmpty(override, "environment"),
                                   config.environment)])

\* routeInfo of the revision with project config files, for the directory at
\* position d.
routeInfo(config, d, project) ==
    LET merged    == mergedProps(config, project.overrides)
        directory == DirectoryAt(config, d)
    IN  [directory |-> directory,
         endpoint |-> join(Slash, relative(resolve(resolve(Empty, config.root),
                                                   config.directory), directory)),
         entryPoint |-> resolve(directory, merged.entryPoint),
         exitPoint |-> merged.exitPoint,
         methods |-> project.exports,
         outDirectory |-> resolve(directory, merged.outDirectory),
         esbuild |-> merged.esbuild,
         environment |-> merged.environment]

\* this.routes after the record info has been stored under key and, for
\* every explicit route whose value is the record's endpoint, once more under
\* the explicit key.
StoreRoute(routes, key, info, explicit) ==
    LET aliases == {a \in DOMAIN explicit : explicit[a] = info.endpoint}
    IN  [k \in DOMAIN routes \cup {key} \cup {<<a>> : a \in aliases} |->
            IF k = key \/ k \in {<<a>> : a \in aliases} THEN info ELSE routes[k]]

\* The project of a route directory has a config file of its own.
hasConfigFile(project) == DOMAIN project.overrides # {} \/ project.kind = "loadError"

\* A rejection inside Promise.all rejects init, unless it has settled.
InitAfterRejection == IF initPc = "running" THEN "rejected" ELSE initPc

RECURSIVE initSync(_, _)
\* The synchronous part of projects.map(async (directory) => ...) in the
\* revision with project config files, from the i-th project on, on the state
\* st = [routes, procs]: a project without a config file is analysed and
\* stored at once (getNamedExports throws on a file that does not parse), a
\* project with one waits for loadAppFromConfig.
initSync(st, i) ==
    IF i > N THEN st
    ELSE LET d == apiRoutes[i]
             project == disk[d]
         IN  IF hasConfigFile(project)
             THEN initSync([st EXCEPT !.procs[d] = "loading"], i + 1)
             ELSE IF project.kind = "buildError"
             THEN initSync([st EXCEPT !.procs[d] = "rejected"], i + 1)
             ELSE initSync([routes |-> StoreRoute(st.routes, d,
                                                  routeInfo(api.config, d, project),
                                                  api.config.routes),
                            procs |-> [st.procs EXCEPT ![d] = "done"]], i + 1)

\* api.init() is called: the work on every route directory starts, and runs
\* up to its first await.
init ==
    /\ initPc = "idle"
    /\ api.revision # "none"
    /\ IF api.revision = "overrides export"
       THEN /\ procs' = [d \in Routes |-> "building"]
            /\ initPc' = "running"
            /\ UNCHANGED api
       ELSE LET st == initSync([routes |-> api.routes, procs |-> procs], 1)
            IN  /\ procs' = st.procs
                /\ api' = [api EXCEPT !.routes = st.routes]
                /\ initPc' = IF \E d \in Routes : st.procs[d] = "rejected"
                             THEN "rejected" ELSE "running"
    /\ UNCHANGED <<serverVars, callVars, devVars, disk, tree>>

\* await buildApiRoute(...) of processDirectory settles for the directory at
\* d: esbuild rejects, or the built file is loaded, with require at once or
\* with import().
BuildDone(d) ==
    /\ procs[d] = "building"
    /\ IF disk[d].kind = "buildError"
       THEN /\ procs' = [procs EXCEPT ![d] = "rejected"]
            /\ initPc' = InitAfterRejection
            /\ UNCHANGED api
       ELSE IF api.config.esbuild.format # "cjs"
       THEN /\ procs' = [procs EXCEPT ![d] = "importing"]
            /\ UNCHANGED <<api, initPc>>
       ELSE IF disk[d].kind = "loadError"
       THEN /\ procs' = [procs EXCEPT ![d] = "rejected"]
            /\ initPc' = InitAfterRejection
            /\ UNCHANGED api
       ELSE /\ procs' = [procs EXCEPT ![d] = "done"]
            /\ api' = [api EXCEPT !.routes =
                          StoreRoute(@, d, processDirectory(api.config, d, disk[d]), <<>>)]
            /\ UNCHANGED initPc
    /\ UNCHANGED <<serverVars, callVars, devVars, disk, tree>>

\* await import(...) of processDirectory settles for the directory at d.
ImportDone(d) ==
    /\ procs[d] = "importing"
    /\ IF disk[d].kind = "loadError"
       THEN /\ procs' = [procs EXCEPT ![d] = "rejected"]
            /\ initPc' = InitAfterRejection
            /\ UNCHANGED api
       ELSE /\ procs' = [procs EXCEPT ![d] = "done"]
            /\ api' = [api EXCEPT !.routes =
                          StoreRoute(@, d, processDirectory(api.config, d, disk[d]), <<>>)]
            /\ UNCHANGED initPc
    /\ UNCHANGED <<serverVars, callVars, devVars, disk, tree>>

\* await loadAppFromConfig(directory) and getApiOverride(app) settle for the
\* project at d: the config file throws, or the merged record is stored.
ConfigLoaded(d) ==
    /\ procs[d] = "loading"
    /\ IF disk[d].kind = "loadError"
       THEN /\ procs' = [procs EXCEPT ![d] = "rejected"]
            /\ initPc' = InitAfterRejection
            /\ UNCHANGED api
       ELSE /\ procs' = [procs EXCEPT ![d] = "done"]
            /\ api' = [api EXCEPT !.routes =
                          StoreRoute(@, d, routeInfo(api.config, d, disk[d]),
                                     api.config.routes)]
            /\ UNCHANGED initPc
    /\ UNCHANGED <<serverVars, callVars, devVars, disk, tree>>

\* Promise.all resolves: the work on every route directory has finished.
initResolved ==
    /\ initPc = "running"
    /\ \A d \in Routes : procs[d] = "done"
    /\ initPc' = "resolved"
    /\ UNCHANGED <<serverVars, callVars, devVars, api, disk, procs, tree>>

\* An Api constructed over the route directories on disk, before init.
ApiInit ==
    /\ GatewayAtRest
    /\ tree = NoTreeCall
    /\ NoCalls
    /\ NoWatcher
    /\ \E revision \in ApiRevisions, fmt \in {"cjs", "esm"}, explicit \in ExplicitRoutes :
          /\ revision = "overrides export" => explicit = <<>>
          /\ api = [revision |-> revision, config |-> ApiConfig(revision, fmt, explicit),
                    routes |-> <<>>]
    /\ disk \in [Routes -> Projects]
    /\ procs = [d \in Routes |-> "idle"]
    /\ initPc = "idle"

ApiNext ==
    \/ init
    \/ \E d \in Routes : BuildDone(d)
    \/ \E d \in Routes : ImportDone(d)
    \/ \E d \in Routes : ConfigLoaded(d)
    \/ initResolved

ApiSpec == ApiInit /\ [][ApiNext]_vars

\* init has stored the record of the directory at d.
Stored(d) == procs[d] = "done" /\ d \in DOMAIN api.routes

\* C11: once init has completed, no two records of the route map have the
\* same endpoint; entries that would share an endpoint make init fail.
C11_EndpointsUnique ==
    initPc = "resolved" =>
        \A k1, k2 \in DOMAIN api.routes :
            k1 # k2 => api.routes[k1].endpoint # api.routes[k2].endpoint

\* The fields of the configuration that are not mappings.
NonMappingFields == {"exitPoint", "uploadDirectory"}

\* The fields of the configuration that are mappings.
MappingFields == {"environment", "esbuild"}

\* C12: in the record of a route, a non-mapping field that the route's
\* override sets has the override's value, and one it does not set has the
\* value of the root config.
C12_OverrideWinsFieldByField ==
    \A d \in Routes : Stored(d) =>
        \A f \in NonMappingFields \cap DOMAIN api.config :
            /\ f \in DOMAIN api.routes[d]
            /\ api.routes[d][f] = IF f \in DOMAIN disk[d].overrides
                                  THEN disk[d].overrides[f] ELSE api.config[f]

\* C13: in the record of a route, a mapping field holds every key of the
\* root config's map and of the override's map, with the override's value
\* for the keys of the override and the root's value for the others.
C13_MappingsMergeKeyWise ==
    \A d \in Routes : Stored(d) =>
        \A f \in MappingFields :
            LET inherited == api.config[f]
                override  == FieldOrEmpty(disk[d].overrides, f)
                merged    == api.routes[d][f]
            IN  /\ DOMAIN merged = DOMAIN inherited \cup DOMAIN override
                /\ \A k \in DOMAIN merged :
                      merged[k] = IF k \in DOMAIN override THEN override[k] ELSE inherited[k]

\* C14: a route directory whose entry or override fails to build or to
\* evaluate does not make init fail, and when the work on every directory has
\* ended, every other directory has its record.
C14_InitFailureScoped ==
    /\ (\E d \in Routes : procs[d] = "rejected") => initPc # "rejected"
    /\ (\A d \in Routes : procs[d] \in {"done", "rejected"}) =>
          /\ initPc = "resolved"
          /\ \A d \in Routes : procs[d] = "done" => d \in DOMAIN api.routes

\* ---------------------------------------------------------------------------
\* The directory tree resolver on its own
\* ---------------------------------------------------------------------------

TreeInit ==
    /\ GatewayAtRest
    /\ ApiAtRest
    /\ tree \in {TreeCall(details) : details \in Details}
    /\ NoCalls
    /\ NoWatcher

\* const resolved = resolveDirectoryTree(details)
ResolveTree ==
    /\ tree.pc = "details"
    /\ tree' = [tree EXCEPT !.pc = "resolved", !.resolved = resolveDirectoryTree(tree.details)]
    /\ UNCHANGED <<serverVars, callVars, devVars, api, disk, procs, initPc>>

\* The four conversions of the resolved tree, applied to a directory at or
\* below the routes directory.
Convert ==
    /\ tree.pc = "resolved"
    /\ \E rel \in Rels, how \in Spellings :
          LET t == tree.resolved
              d == Spell(t.directory, rel, how)
          IN  tree' = [tree EXCEPT
                          !.pc = "converted", !.rel = rel, !.directory = d,
                          !.endpoint = directoryToEndpoint(t, d),
                          !.outDirectory = directoryToOutDirectory(t, d),
                          !.handler = directoryToHandler(t, d),
                          !.uploadDirectory = directoryToUploadDirectory(t, d)]
    /\ UNCHANGED <<serverVars, callVars, devVars, api, disk, procs, initPc>>

TreeNext == ResolveTree \/ Convert

TreeSpec == TreeInit /\ [][TreeNext]_vars

PlainDetails(details) ==
    /\ details.root.abs
    /\ ~details.directory.abs
    /\ \A p \in {details.root, details.directory, details.outDirectory} :
          \A k \in 1..Len(p.segs) : p.segs[k] \notin {".", ".."}

\* C16: the routes directory and the out directory are resolved against the
\* root; a directory at or below the routes directory maps to the out
\* directory followed by its position below the routes directory, its
\* handler to that directory followed by exitPoint, and its upload directory
\* to that directory followed by uploadDirectory.
C16_OutDirectoryMirrorsTree ==
    /\ (tree.pc # "none" /\ tree.pc # "details" /\ PlainDetails(tree.details)) =>
          /\ tree.resolved.root = Path(TRUE, tree.details.root.segs, FALSE)
          /\ tree.resolved.directory =
                Path(TRUE, tree.details.root.segs \o tree.details.directory.segs, FALSE)
          /\ tree.resolved.outDirectory =
                Path(TRUE, tree.details.root.segs \o tree.details.outDirectory.segs, FALSE)
    /\ tree.pc = "converted" =>
          LET out == tree.resolved.outDirectory.segs \o tree.rel
          IN  /\ tree.outDirectory = Path(TRUE, out, FALSE)
              /\ tree.handler = Path(TRUE, out \o tree.details.exitPoint.segs, FALSE)
              /\ tree.uploadDirectory =
                    Path(TRUE, out \o tree.details.uploadDirectory.segs, FALSE)
              /\ tree.rel = <<>> => tree.outDirectory = tree.resolved.outDirectory

\* The routes directory itself and a directory below it have been converted
\* to their out, handler and upload directories.
C16_Witness ==
    /\ tree.pc = "converted"
    /\ PlainDetails(tree.details)
    /\ tree.rel # <<>>
    /\ tree.outDirectory.segs = tree.resolved.outDirectory.segs \o tree.rel
    /\ tree.uploadDirectory.segs = tree.outDirectory.segs \o <<"dist">>

\* The inverse conversion the round trip is stated with: the endpoint joined
\* to the routes directory.
endpointToDirectory(t, endpoint) == join(t.directory, endpoint)

\* C17: converting a directory under the routes directory to its endpoint
\* and back gives the directory, up to normalization, and two different
\* directories under the routes directory never have the same endpoint.
C17_EndpointRoundTrip ==
    /\ tree.pc = "converted" =>
          resolve(Empty, endpointToDirectory(tree.resolved, tree.endpoint))
              = resolve(Empty, tree.directory)
    /\ tree.pc = "converted" =>
          \A rel \in Rels : \A how \in Spellings :
              LET other == Spell(tree.resolved.directory, rel, how)
              IN  directoryToEndpoint(tree.resolved, other) = tree.endpoint
                      => resolve(Empty, other) = resolve(Empty, tree.directory)

\* A directory written with a detour has been converted to its endpoint, and
\* the endpoint leads back to it.
C17_Witness ==
    /\ tree.pc = "converted"
    /\ tree.rel # <<>>
    /\ tree.directory # resolve(Empty, tree.directory)
    /\ endpointToDirectory(tree.resolved, tree.endpoint) = resolve(Empty, tree.directory)

\* ---------------------------------------------------------------------------
\* decode over buffers of every length and start
\* ---------------------------------------------------------------------------

\* Length of the longest buffer that starts with a chosen pair of bytes.
MaxBytes == 9

\* n bytes of the letter "h".
Filler(n) == [k \in 1..n |-> 104]

\* The base64-decoded buffers decode is called with: the buffers a handler
\* may encode, the buffers of one byte or none, and for every length from 2
\* to MaxBytes the buffers that start with 1F, 78 or "h" followed by 8B, 9C or
\* "i".
DecodeInputs ==
    Buffers
        \cup {<<>>, <<31>>, <<120>>, <<104>>}
        \cup {<<b1, b2>> \o Filler(n - 2) :
                 b1 \in {31, 120, 104}, b2 \in {139, 156, 105}, n \in 2..MaxBytes}

\* decode has been called with the base64 text of one of the buffers.
DecodeInit ==
    /\ GatewayAtRest
    /\ ApiAtRest
    /\ tree = NoTreeCall
    /\ decoding \in {[pc |-> "called", encodedString |-> Base64(b), returned |-> Undefined] :
                        b \in DecodeInputs}
    /\ finding = NoFindCall
    /\ building = NoBuildCall
    /\ NoWatcher

\* return decode(encodedString)
Decode ==
    /\ decoding.pc = "called"
    /\ decoding' = [decoding EXCEPT !.pc = "returned",
                                    !.returned = decode(decoding.encodedString)]
    /\ UNCHANGED <<serverVars, apiVars, devVars, finding, building>>

DecodeNext == Decode

DecodeSpec == DecodeInit /\ [][DecodeNext]_vars

\* C24: decode looks at the decoded buffer B in this order: fewer than 8
\* bytes, B as text and no decompression; else 1F 8B at the start, the
\* gunzipped text; else 78 at the start, the inflated text; else B as text.
C24_DecodeChecksInOrder ==
    decoding.pc = "returned" =>
        LET B == decoding.encodedString.bytes
            short == Len(B) < 8
            gzip  == ~short /\ B[1] = 31 /\ B[2] = 139
            zlib  == ~short /\ ~gzip /\ B[1] = 120
        IN  /\ short => decoding.returned = Text(B)
            /\ gzip => decoding.returned = gunzipSync(B)
            /\ zlib => decoding.returned = inflateSync(B)
            /\ (~short /\ ~gzip /\ ~zlib) => decoding.returned = Text(B)

\* decode has returned the text of a short buffer that starts with the gzip
\* magic number without decompressing it.
C24_Witness ==
    /\ decoding.pc = "returned"
    /\ Len(decoding.encodedString.bytes) \in 2..7
    /\ decoding.encodedString.bytes[1] = 31
    /\ decoding.encodedString.bytes[2] = 139
    /\ decoding.returned = Text(decoding.encodedString.bytes)

\* ---------------------------------------------------------------------------
\* Responses per request
\* ---------------------------------------------------------------------------

\* C28: for every handler, also one that invokes the callback and returns a
\* result, the callback and wrapExpressHandler together call res.send,
\* res.json or next at most once for a request.
C28_AtMostOneResponse ==
    req # NoRequest /\ req.layer # NotFound => req.calls <= 1

\* ---------------------------------------------------------------------------
\* The derived fields of a route record
\* ---------------------------------------------------------------------------

\* C29: whatever overrides a route module exports, the record that
\* processDirectory stores for the directory d has d as its directory, the
\* endpoint and the out directory the tree derives from d, and the recognized
\* verbs the built module exports as its methods.
C29_DerivedFieldsKept ==
    api.revision = "overrides export" =>
        \A d \in Routes : Stored(d) =>
            LET t         == resolveDirectoryTree(api.config)
                directory == DirectoryAt(api.config, d)
                route     == api.routes[d]
            IN  /\ route.directory = directory
                /\ route.endpoint = directoryToEndpoint(t, directory)
                /\ route.outDirectory = directoryToOutDirectory(t, directory)
                /\ route.methods = SelectSeq(disk[d].exports, isHttpMethod)

\* ---------------------------------------------------------------------------
\* Construct trees, findNestedBronyaConstructs and getAppPlugins
\* ---------------------------------------------------------------------------

\* Number of constructs of a construct tree, the App included.
MaxNodes == 5

\* The kinds of construct below the App: a Stack, a Construct that is neither
\* a Stack nor a BronyaConstruct, and a BronyaConstruct.
ConstructKinds == {"Stack", "Construct", "BronyaConstruct"}

\* The construct trees with n constructs.  Construct 1 is the App; every other
\* construct is created in the scope of an earlier one and is of one of the
\* kinds.
ConstructTrees(n) ==
    {[scope |-> scope, kind |-> kind] :
        scope \in {f \in [2..n -> 1..n] : \A i \in 2..n : f[i] < i},
        kind \in [2..n -> ConstructKinds]}

\* The constructs of the tree g.
Nodes(g) == {1} \cup DOMAIN g.scope

\* Construct.isConstruct(value) && value.scope === BronyaSymbol
isBronyaConstruct(g, i) == i # 1 /\ g.kind[i] = "BronyaConstruct"

\* Stack.isStack
isStack(g, i) == i # 1 /\ g.kind[i] = "Stack"

RECURSIVE Ascending(_)
\* The members of a set of constructs in the order of their creation.
Ascending(S) ==
    IF S = {} THEN <<>>
    ELSE LET m == CHOOSE x \in S : \A y \in S : x <= y
         IN  <<m>> \o Ascending(S \ {m})

\* construct.node.children
children(g, i) == Ascending({j \in DOMAIN g.scope : g.scope[j] = i})

\* construct.plugins: a BronyaConstruct has pushed one plugin or two.
plugins(g, i) ==
    IF isBronyaConstruct(g, i)
    THEN [k \in 1..(IF i % 3 = 0 THEN 2 ELSE 1) |-> [type |-> "placeholder", name |-> <<i, k>>]]
    ELSE <<>>

RECURSIVE flatMapChildren(_, _)
\* constructs.flatMap((construct) => construct.node.children)
flatMapChildren(g, constructs) ==
    IF constructs = <<>> THEN <<>>
    ELSE children(g, Head(constructs)) \o flatMapChildren(g, Tail(constructs))

RECURSIVE flatMapPlugins(_, _)
\* constructs.flatMap((construct) => construct.plugins)
flatMapPlugins(g, constructs) ==
    IF constructs = <<>> THEN <<>>
    ELSE plugins(g, Head(constructs)) \o flatMapPlugins(g, Tail(constructs))

RECURSIVE findNestedBronyaConstructsMutant(_, _)
\* A search that goes on below the BronyaConstructs it finds.
findNestedBronyaConstructsMutant(g, constructs) ==
    LET bronyaConstructs == SelectSeq(constructs, LAMBDA i : isBronyaConstruct(g, i))
    IN  IF constructs = <<>>
        THEN bronyaConstructs
        ELSE bronyaConstructs
                 \o findNestedBronyaConstructsMutant(g, flatMapChildren(g, constructs))

RECURSIVE findNestedBronyaConstructs(_, _)
\* findNestedBronyaConstructs(constructs): the BronyaConstructs among the
\* constructs, followed by those found among the children of the others.
findNestedBronyaConstructs(g, constructs) ==
    LET bronyaConstructs == SelectSeq(constructs, LAMBDA i : isBronyaConstruct(g, i))
        toFind           == SelectSeq(constructs, LAMBDA i : ~isBronyaConstruct(g, i))
    IN  IF toFind = <<>>
        THEN bronyaConstructs
        ELSE bronyaConstructs
                 \o findNestedBronyaConstructs(g, flatMapChildren(g, toFind))

\* getAppPlugins(app)
getAppPlugins(g) ==
    LET stacks           == SelectSeq(children(g, 1), LAMBDA i : isStack(g, i))
        bronyaConstructs == findNestedBronyaConstructs(g, stacks)
    IN  flatMapPlugins(g, bronyaConstructs)

\* The functions of construct.ts that are called on a tree.
FindFunctions == {"findNestedBronyaConstructs", "getAppPlugins"}

\* One of the two functions has been called on an App with a construct tree:
\* findNestedBronyaConstructs(app.node.children) or getAppPlugins(app).
FindInit ==
    /\ GatewayAtRest
    /\ ApiAtRest
    /\ tree = NoTreeCall
    /\ decoding = NoDecodeCall
    /\ finding \in {[pc |-> "called", fn |-> fn, app |-> g, returned |-> <<>>] :
                       fn \in FindFunctions, g \in ConstructTrees(MaxNodes)}
    /\ building = NoBuildCall
    /\ NoWatcher

\* return findNestedBronyaConstructs(app.node.children)
FindConstructs ==
    /\ finding.pc = "called"
    /\ finding.fn = "findNestedBronyaConstructs"
    /\ finding' = [finding EXCEPT
                      !.pc = "returned",
                      !.returned = findNestedBronyaConstructs(finding.app,
                                                              children(finding.app, 1))]
    /\ UNCHANGED <<serverVars, apiVars, devVars, decoding, building>>

\* return getAppPlugins(app)
FindPlugins ==
    /\ finding.pc = "called"
    /\ finding.fn = "getAppPlugins"
    /\ finding' = [finding EXCEPT !.pc = "returned",
                                  !.returned = getAppPlugins(finding.app)]
    /\ UNCHANGED <<serverVars, apiVars, devVars, decoding, building>>

FindNext == FindConstructs \/ FindPlugins

FindSpec == FindInit /\ [][FindNext]_vars

RECURSIVE Ancestors(_, _)
\* The constructs of the tree g above the construct i.
Ancestors(g, i) ==
    IF i = 1 THEN {} ELSE {g.scope[i]} \cup Ancestors(g, g.scope[i])

\* The BronyaConstructs of g below the App that lie at or below a construct of
\* the set roots and have no BronyaConstruct above them.
Outermost(g, roots) ==
    {i \in DOMAIN g.scope :
        /\ isBronyaConstruct(g, i)
        /\ ({i} \cup Ancestors(g, i)) \cap roots # {}
        /\ \A a \in Ancestors(g, i) : ~isBronyaConstruct(g, a)}

\* Every member of the set S occurs exactly once in the sequence s, and
\* nothing else occurs in it.
ExactlyOnce(s, S) ==
    /\ {s[k] : k \in DOMAIN s} = S
    /\ \A j, k \in DOMAIN s : s[j] = s[k] => j = k

\* C23: findNestedBronyaConstructs returns every BronyaConstruct of the
\* forest that has no BronyaConstruct above it, each exactly once, and
\* getAppPlugins returns the plugins of those found under the App's stacks, one
\* entry per plugin.
C23_PluginsOfOutermostConstructs ==
    finding.pc = "returned" =>
        LET g == finding.app
        IN  IF finding.fn = "findNestedBronyaConstructs"
            THEN ExactlyOnce(finding.returned, Outermost(g, {j \in Nodes(g) : j # 1}))
            ELSE LET stacks == {j \in DOMAIN g.scope : g.scope[j] = 1 /\ isStack(g, j)}
                 IN  ExactlyOnce(finding.returned,
                                 UNION {{plugins(g, i)[k] : k \in DOMAIN plugins(g, i)} :
                                           i \in Outermost(g, stacks)})

\* getAppPlugins has returned the plugins of three sibling BronyaConstructs
\* of a stack of the App.
C23_Witness ==
    /\ finding.pc = "returned"
    /\ finding.fn = "getAppPlugins"
    /\ \E st, a, b, c \in DOMAIN finding.app.scope :
          /\ finding.app.scope[st] = 1 /\ isStack(finding.app, st)
          /\ a < b /\ b < c
          /\ \A i \in {a, b, c} :
                /\ finding.app.scope[i] = st
                /\ isBronyaConstruct(finding.app, i)
                /\ \E k \in DOMAIN finding.returned :
                      finding.returned[k] = plugins(finding.app, i)[1]

\* ---------------------------------------------------------------------------
\* buildApiRoute and the file that is loaded
\* ---------------------------------------------------------------------------

\* A file name is the sequence of its parts between the dots: 'handler.mjs'
\* is <<"handler", "mjs">>.  A file is a directory and a file name.
FileIn(directory, name) == [directory |-> directory, name |-> name]

\* exitPoint.replace(/\.(c|m)?js$/, '')
replaceJs(name) ==
    IF Len(name) >= 2 /\ name[Len(name)] \in {"js", "cjs", "mjs"} THEN Front(name) ELSE name

\* object.field ?? fallback
OrElse(object, field, fallback) ==
    IF field \in DOMAIN object THEN object[field] ELSE fallback

\* The esbuild options buildApiRoute calls build with.
esbuildOptions(options) ==
    LET withOutdir ==
            Spread(options.esbuild,
                   [outdir |-> OrElse(options.esbuild, "outdir", options.outDirectory)])
    IN  Spread(withOutdir,
               [entryPoints |-> OrElse(withOutdir, "entryPoints",
                                       [out \in {replaceJs(options.exitPoint)} |->
                                           options.entryPoint])])

\* The files build(esbuildOptions) writes: for every entry point `out: in` of
\* the object, the file outdir/out.js.
build(options) ==
    {FileIn(options.outdir, out \o <<"js">>) : out \in DOMAIN options.entryPoints}

\* const file = path.resolve(apiRouteInfo.outDirectory, apiRouteInfo.exitPoint)
loadedFile(options) == FileIn(resolve(Empty, options.outDirectory), options.exitPoint)

\* The values of exitPoint.
ExitPoints ==
    {<<"handler", "js">>, <<"handler", "cjs">>, <<"handler", "mjs">>, <<"index", "js">>}

\* The esbuild options of a config: the format, and an outdir or entry points
\* of the user's or none.
EsbuildConfigs ==
    {Spread(Spread([format |-> fmt], outdir), entryPoints) :
        fmt \in {"cjs", "esm"},
        outdir \in {<<>>, [outdir |-> Path(TRUE, <<"p", "build">>, FALSE)]},
        entryPoints \in {<<>>, [entryPoints |->
                                   [out \in {<<"main">>} |-> Path(TRUE, <<"p", "main.ts">>, FALSE)]]}}

\* buildApiRoute has been called with the build options of a route record.
BuildInit ==
    /\ GatewayAtRest
    /\ ApiAtRest
    /\ tree = NoTreeCall
    /\ decoding = NoDecodeCall
    /\ finding = NoFindCall
    /\ building \in
          {[pc |-> "called",
            options |-> [esbuild |-> esbuild,
                         entryPoint |-> Path(TRUE, <<"p", "src">> \o rel \o <<"+endpoint.ts">>,
                                             FALSE),
                         exitPoint |-> exitPoint,
                         outDirectory |-> Path(TRUE, <<"p", ".bronya">> \o rel, FALSE)],
            written |-> {}] :
              esbuild \in EsbuildConfigs, exitPoint \in ExitPoints, rel \in Rels}
    /\ NoWatcher

\* await build(esbuildOptions)
buildApiRoute ==
    /\ building.pc = "called"
    /\ building' = [building EXCEPT !.pc = "built",
                                    !.written = build(esbuildOptions(building.options))]
    /\ UNCHANGED <<serverVars, apiVars, devVars, decoding, finding>>

BuildNext == buildApiRoute

BuildSpec == BuildInit /\ [][BuildNext]_vars

\* C30: for every exitPoint and every esbuild config, the file that
\* loadEndpoint and Api.init load, outDirectory joined with exitPoint, is a
\* file buildApiRoute made the compiler write.
C30_LoadedFileIsBuilt ==
    building.pc = "built" => loadedFile(building.options) \in building.written

\* ---------------------------------------------------------------------------
\* The files, the watcher and the rebuilds
\* ---------------------------------------------------------------------------

\* The variables of the gateway that the work on the files leaves alone.
routingVars == <<outFile, format, now, requireCache, esmCache, heap, routers, router, tasks,
                 mainPc, alive, req>>

\* The out directories of a config: the default one, one without a dot, and
\* one inside the routes directory.
OutDirectories == {File(".bronya"), File("out"), Path(FALSE, <<"src", "out">>, FALSE)}

\* The config of an Api whose out directory is out.
WatchConfig(out) ==
    [ApiConfig("overrides export", "esm", <<>>) EXCEPT !.outDirectory = out]

\* The file names that start with a dot.
DotNames == {".bronya", ".env", ".out"}

\* path.dirname(file)
dirname(file) == Path(file.abs, Front(file.segs), FALSE)

\* The path p is the directory or lies below it.
Below(directory, p) == IsPrefix(directory.segs, p.segs)

\* The compiled handler of a route record: the file the build writes for the
\* exitPoint 'handler.js', and the file loadEndpoint loads.
handlerFile(route) == resolve(route.outDirectory, route.exitPoint)

\* fs.rmSync(directory, { recursive: true, force: true })
rmSync(fs, directory) ==
    [f \in {g \in DOMAIN fs : ~Below(directory, g)} |-> fs[f]]

\* The file is written with the content.
writeFile(fs, file, content) ==
    [f \in DOMAIN fs \cup {file} |-> IF f = file THEN content ELSE fs[f]]

\* A compiler that empties its outdir when it writes its output.
esbuildMutant(fs, route, content) ==
    writeFile(rmSync(fs, route.outDirectory), handlerFile(route), content)

\* await build(esbuildOptions) for a route record: the compiler writes the
\* compiled handler into the out directory.
esbuild(fs, route, content) == writeFile(fs, handlerFile(route), content)

\* const apiRoutePaths = Object.keys(api.routes)
apiRoutePaths == {DirectoryAt(api.config, d) : d \in DOMAIN api.routes}

\* const outputDirectories = apiRoutes.map((apiRoute) =>
\*   path.resolve(currentProject, apiRoute.directory, apiRoute.outDirectory))
outputDirectories ==
    {resolve(resolve(resolve(Empty, api.config.root), api.routes[d].directory),
             api.routes[d].outDirectory) : d \in DOMAIN api.routes}

\* The `ignored` option of the watcher: dotfiles, node_modules and the output
\* directories with everything below them.
ignored(file) ==
    \/ \E k \in DOMAIN file.segs : file.segs[k] \in DotNames
    \/ \E k \in DOMAIN file.segs : file.segs[k] = "node_modules"
    \/ \E directory \in outputDirectories : Below(directory, file)

\* The watcher reports the events of the files below the watched paths that
\* are not ignored.
watched(file) ==
    /\ \E directory \in apiRoutePaths : Below(directory, file)
    /\ ~ignored(file)

\* The sources of the route at d: its entry file and a module the entry file
\* imports from a subdirectory that is not a route.
entryFile(d) == resolve(DirectoryAt(api.config, d), api.config.entryPoint)

helperFile(d) ==
    resolve(DirectoryAt(api.config, d), Path(FALSE, <<"lib", "util.ts">>, FALSE))

SourceFiles == {entryFile(d) : d \in Routes} \cup {helperFile(d) : d \in Routes}

\* The files a developer saves: sources, a dotfile and a file of a dependency.
SavedFiles ==
    SourceFiles
        \cup {resolve(DirectoryAt(api.config, <<>>), File(".env")),
              resolve(DirectoryAt(api.config, <<>>),
                      Path(FALSE, <<"node_modules", "m", "index.js">>, FALSE))}

\* The route that owns a file: the nearest route directory at or above it.
Owner(file) ==
    CHOOSE d \in Routes :
        /\ Below(DirectoryAt(api.config, d), file)
        /\ \A e \in Routes : Below(DirectoryAt(api.config, e), file) => Len(e) <= Len(d)

\* The gateway of an Api has started: every route is built and loaded, and
\* the watcher watches the route directories.
WatchInit ==
    /\ GatewayAtRest
    /\ tree = NoTreeCall
    /\ NoCalls
    /\ \E out \in OutDirectories :
          LET config == WatchConfig(out)
              routes == [d \in Routes |->
                            processDirectory(config, d,
                                             [kind |-> "ok", exports |-> ExportsOf(0),
                                              overrides |-> <<>>])]
          IN  /\ api = [revision |-> "overrides export", config |-> config, routes |-> routes]
              /\ files = [f \in {handlerFile(routes[d]) : d \in Routes} |-> 0]
    /\ disk = <<>>
    /\ procs = <<>>
    /\ initPc = "resolved"
    /\ pending = {}
    /\ jobs = <<>>
    /\ rebuilds = [d \in Routes |-> 0]
    /\ loaded = [d \in Routes |-> ExportsOf(0)]
    /\ functions = {}

\* The developer saves a file whose last event has been handled; a source of
\* a route is saved with new content.
SaveFile(file) ==
    /\ changes < MaxChanges
    /\ file \notin pending
    /\ changes' = changes + 1
    /\ pending' = pending \cup {file}
    /\ source' = IF file \in SourceFiles
                 THEN [source EXCEPT ![Owner(file)] =
                          [ver |-> @.ver + 1, kind |-> "ok", exports |-> ExportsOf(@.ver + 1)]]
                 ELSE source
    /\ UNCHANGED <<routingVars, apiVars, callVars, files, jobs, rebuilds, loaded, functions>>

\* The event of a file reaches the watcher.  An event of a watched file is a
\* 'change' for watcher.on('change'), which looks the directory of the file
\* up in api.routes and calls buildApiRoute; the build removes its out
\* directory before it awaits the compiler.
WatcherChange(fileChanged) ==
    /\ fileChanged \in pending
    /\ LET endpoint == dirname(fileChanged)
           keys     == {d \in DOMAIN api.routes : DirectoryAt(api.config, d) = endpoint}
       IN  IF ~watched(fileChanged) \/ keys = {}
           THEN /\ pending' = pending \ {fileChanged}
                /\ UNCHANGED <<files, jobs, rebuilds>>
           ELSE LET d       == CHOOSE k \in keys : TRUE
                    outdir  == api.routes[d].outDirectory
                    removed == {f \in DOMAIN files : Below(outdir, f)}
                IN  /\ files' = rmSync(files, outdir)
                    /\ pending' = (pending \ {fileChanged}) \cup removed
                    /\ jobs' = Append(jobs, [route |-> d, pc |-> "building", built |-> -1])
                    /\ rebuilds' = [rebuilds EXCEPT ![d] = @ + 1]
    /\ UNCHANGED <<serverVars, apiVars, callVars, loaded, functions>>

\* await buildApiRoute(apiRouteInfo) of the callback j settles: the compiler
\* has written the handler of the route.
RebuildDone(j) ==
    /\ jobs[j].pc = "building"
    /\ LET d    == jobs[j].route
           file == handlerFile(api.routes[d])
       IN  /\ files' = esbuild(files, api.routes[d], source[d].ver)
           /\ pending' = pending \cup {file}
           /\ jobs' = [jobs EXCEPT ![j].pc = "loading", ![j].built = source[d].ver]
    /\ UNCHANGED <<serverVars, apiVars, callVars, rebuilds, loaded, functions>>

\* await loadEndpoint(apiRouteInfo) of the callback j settles and the router
\* is refreshed, or the import of a file that is not there rejects.
ReloadDone(j) ==
    /\ jobs[j].pc = "loading"
    /\ LET d    == jobs[j].route
           file == handlerFile(api.routes[d])
       IN  IF file \in DOMAIN files
           THEN /\ loaded' = [loaded EXCEPT ![d] = ExportsOf(files[file])]
                /\ jobs' = [jobs EXCEPT ![j].pc = "done"]
           ELSE /\ jobs' = [jobs EXCEPT ![j].pc = "failed"]
                /\ UNCHANGED loaded
    /\ UNCHANGED <<serverVars, apiVars, callVars, files, pending, rebuilds, functions>>

WatchNext ==
    \/ \E file \in SavedFiles : SaveFile(file)
    \/ \E file \in pending : WatcherChange(file)
    \/ \E j \in DOMAIN jobs : RebuildDone(j)
    \/ \E j \in DOMAIN jobs : ReloadDone(j)

WatchSpec == WatchInit /\ [][WatchNext]_vars

\* The watcher has handled the event of the file in this step.
Handled(file) == file \in pending /\ file \notin pending'

\* C21: the event of a source file that lies in a route directory or in a
\* subdirectory of it that is not a route starts the rebuild of the route
\* that owns the file, and of no other route.
C21_ChangeRebuildsOwner ==
    [][\A file \in SourceFiles :
          (Handled(file) /\ ~ignored(file)) =>
              rebuilds' = [rebuilds EXCEPT ![Owner(file)] = @ + 1]]_vars

\* Every event has been handled and every callback has ended.
WatcherQuiet ==
    /\ pending = {}
    /\ \A j \in DOMAIN jobs : jobs[j].pc \in {"done", "failed"}

\* No route has been rebuilt more often than its sources were saved: the
\* files a build removes and writes start no build.
NoSelfTrigger == \A d \in Routes : rebuilds[d] <= source[d].ver

\* C25: for every out directory, the files a rebuild writes or removes start
\* no rebuild, and once the system is quiescent every route has been rebuilt
\* exactly once for each change of one of its source files.
C25_OneRebuildPerChange ==
    /\ NoSelfTrigger
    /\ WatcherQuiet => \A d \in Routes : rebuilds[d] = source[d].ver

\* C26: when a rebuild and reload of a route have succeeded, the methods of
\* the route's record in api.routes are the recognized verbs that the newly
\* built module exports.
C26_MethodsRefreshed ==
    [][\A j \in DOMAIN jobs :
          (jobs[j].pc = "loading" /\ jobs'[j].pc = "done") =>
              api'.routes[jobs[j].route].methods
                  = SelectSeq(loaded'[jobs[j].route], isHttpMethod)]_vars

\* C27: the compiled handler of a route is removed by a build of that route
\* only, never by the build of another route.
C27_BuildKeepsOtherRoutes ==
    [][\A d \in Routes :
          (handlerFile(api.routes[d]) \in DOMAIN files
              /\ handlerFile(api.routes[d]) \notin DOMAIN files')
                  => rebuilds'[d] = rebuilds[d] + 1]_vars

\* ---------------------------------------------------------------------------
\* Api.synth
\* ---------------------------------------------------------------------------

\* The versions of the entry files an Api is initialised over.
SynthVersions == 0..3

\* The files of the directory itself, without those of its subdirectories.
FilesIn(fs, directory) == {f \in DOMAIN fs : dirname(f) = directory}

\* fs.mkdirSync(uploadDirectory) and the copy of every file of the out
\* directory into the upload directory.
copyFiles(fs, outDirectory, uploadDirectory) ==
    LET copy(f) == join(uploadDirectory, File(f.segs[Len(f.segs)]))
        copied  == FilesIn(fs, outDirectory)
    IN  [g \in DOMAIN fs \cup {copy(f) : f \in copied} |->
            IF \E f \in copied : copy(f) = g
            THEN fs[CHOOSE f \in copied : copy(f) = g]
            ELSE fs[g]]

\* The content of a directory: aws_lambda.Code.fromAsset(uploadDirectory)
fromAsset(fs, directory) == [f \in {g \in DOMAIN fs : Below(directory, g)} |-> fs[f]]

\* this.tree.directoryToOutDirectory(route.directory)
outDirectoryOf(d) ==
    directoryToOutDirectory(resolveDirectoryTree(api.config), api.routes[d].directory)

\* this.tree.directoryToUploadDirectory(route.directory)
uploadDirectoryOf(d) ==
    directoryToUploadDirectory(resolveDirectoryTree(api.config), api.routes[d].directory)

RECURSIVE rmAll(_, _)
\* The synchronous parts of the calls buildApiRoute(route) that the map over
\* Object.entries(this.routes) makes, from the i-th route on: every out
\* directory is removed before a compiler is awaited.
rmAll(fs, i) ==
    IF i > N THEN fs
    ELSE rmAll(rmSync(fs, api.routes[apiRoutes[i]].outDirectory), i + 1)

\* An Api after init over entry files of some versions: every route has its
\* record and its compiled handler.
SynthInit ==
    /\ GatewayAtRest
    /\ tree = NoTreeCall
    /\ NoCalls
    /\ \E out \in OutDirectories, version \in [Routes -> SynthVersions] :
          LET config == WatchConfig(out)
              routes == [d \in Routes |->
                            processDirectory(config, d,
                                             [kind |-> "ok", exports |-> ExportsOf(version[d]),
                                              overrides |-> <<>>])]
          IN  /\ api = [revision |-> "overrides export", config |-> config, routes |-> routes]
              /\ files = [f \in {handlerFile(routes[d]) : d \in Routes} |->
                             version[CHOOSE d \in Routes : handlerFile(routes[d]) = f]]
              /\ loaded = [d \in Routes |-> ExportsOf(version[d])]
    /\ disk = <<>>
    /\ procs = <<>>
    /\ initPc = "resolved"
    /\ pending = {}
    /\ jobs = <<>>
    /\ rebuilds = [d \in Routes |-> 0]
    /\ functions = {}

\* api.synth() is called: the work on every route starts and runs up to
\* await build(esbuildOptions).  The entry files are those init has compiled,
\* so every build is going to write the version that init wrote.
synth ==
    /\ jobs = <<>>
    /\ files' = rmAll(files, 1)
    /\ jobs' = [i \in 1..N |->
                   [route |-> apiRoutes[i], pc |-> "building",
                    built |-> files[handlerFile(api.routes[apiRoutes[i]])], k |-> 0]]
    /\ UNCHANGED <<serverVars, apiVars, callVars, pending, rebuilds, loaded, functions>>

\* The copy of the out directory into the upload directory for the k-th
\* method of the job's route, up to await route.constructs?.lambdaUpload?.(...),
\* or the end of the job when the route has no k-th method.
nextMethod(job, fs, k) ==
    IF k > Len(api.routes[job.route].methods)
    THEN [job |-> [job EXCEPT !.pc = "done"], files |-> fs]
    ELSE [job |-> [job EXCEPT !.pc = "uploading", !.k = k],
          files |-> copyFiles(fs, outDirectoryOf(job.route), uploadDirectoryOf(job.route))]

\* await buildApiRoute(route) of synth settles for the job j, and the loop
\* over the route's methods begins.
SynthBuilt(j) ==
    /\ jobs[j].pc = "building"
    /\ LET d     == jobs[j].route
           built == esbuild(files, api.routes[d], jobs[j].built)
           next  == nextMethod(jobs[j], built, 1)
       IN  /\ files' = next.files
           /\ jobs' = [jobs EXCEPT ![j] = next.job]
    /\ UNCHANGED <<serverVars, apiVars, callVars, pending, rebuilds, loaded, functions>>

\* new aws_lambda.Function(..., { code: aws_lambda.Code.fromAsset(uploadDirectory) })
\* for the method the job j is at, up to await functionPlugin?.(...)
SynthFunction(j) ==
    /\ jobs[j].pc = "uploading"
    /\ LET d == jobs[j].route
       IN  functions' = functions \cup
               {[route |-> d, httpMethod |-> api.routes[d].methods[jobs[j].k],
                 code |-> fromAsset(files, uploadDirectoryOf(d))]}
    /\ jobs' = [jobs EXCEPT ![j].pc = "plugins"]
    /\ UNCHANGED <<serverVars, apiVars, callVars, files, pending, rebuilds, loaded>>

\* The function plugins of the job j have been awaited: the loop goes on to
\* the next method.
SynthPlugins(j) ==
    /\ jobs[j].pc = "plugins"
    /\ LET next == nextMethod(jobs[j], files, jobs[j].k + 1)
       IN  /\ files' = next.files
           /\ jobs' = [jobs EXCEPT ![j] = next.job]
    /\ UNCHANGED <<serverVars, apiVars, callVars, pending, rebuilds, loaded, functions>>

SynthNext ==
    \/ synth
    \/ \E j \in DOMAIN jobs : SynthBuilt(j)
    \/ \E j \in DOMAIN jobs : SynthFunction(j)
    \/ \E j \in DOMAIN jobs : SynthPlugins(j)

SynthSpec == SynthInit /\ [][SynthNext]_vars

\* The job of synth for the route at d.
JobOf(d) == jobs[CHOOSE j \in DOMAIN jobs : jobs[j].route = d]

====
